---- MODULE Spec2Model ----
(***************************************************************************)
(* The scraping and aggregation engine of the product finder:              *)
(*   BaseScraper.get_page_content   (disk cache, retry loop, Selenium)     *)
(*   AmazonScraper / EbayScraper / WalmartScraper .search_products         *)
(*   ScraperManager.search_products (fan-out, normalisation, demotion)     *)
(* Character strings of the program whose content matters (URLs, cache     *)
(* keys, class names, image references) are sequences of one-character     *)
(* strings, so that lower(), replace() and the substring test "in" are     *)
(* computed as Python computes them.                                       *)
(***************************************************************************)
EXTENDS Integers, Sequences, FiniteSets, TLC

(***************************************************************************)
(* Bounds of the model                                                     *)
(***************************************************************************)
\* the clock (hours) stops advancing at MaxNow
MaxNow == 25
\* get_page_content calls per behaviour of SpecFetch
MaxFetches == 1
\* ScraperManager.search_products calls per behaviour of Spec
MaxCalls == 2
\* the largest limit a caller passes to ScraperManager.search_products
MaxLimit == 2
\* get_page_content calls of one URL that run at the same time in SpecConcurrent
MaxThreads == 2

(***************************************************************************)
(* Program constants                                                       *)
(***************************************************************************)
\* base_scraper.py:13  MAX_RETRIES = int(os.getenv("SCRAPER_RETRIES", "3"))
MAX_RETRIES == 3
\* base_scraper.py:71  cache_timeout_hours=24
cache_timeout_hours == 24
\* base_scraper.py:126 len(html) > 200
MinBodyLen == 200
\* base_scraper.py:196 range(min(limit, 5))
FakeCap == 5

None == "None"

(***************************************************************************)
(* String literals of the program                                          *)
(***************************************************************************)
\* "https://"
S_https ==
    <<"h","t","t","p","s",":","/","/">>
\* "http://"
S_http ==
    <<"h","t","t","p",":","/","/">>
\* "/"
S_slash ==
    <<"/">>
\* "?"
S_qmark ==
    <<"?">>
\* "="
S_equals ==
    <<"=">>
\* "_"
S_underscore ==
    <<"_">>
\* " "
S_space ==
    <<" ">>
\* "+"
S_plus ==
    <<"+">>
\* ".html"
S_html_ext ==
    <<".","h","t","m","l">>
\* "placehold.co"
S_placehold_co ==
    <<"p","l","a","c","e","h","o","l","d",".","c","o">>
\* "https://placehold.co/400x400?text="
S_fake_image_prefix ==
    <<"h","t","t","p","s",":","/","/","p","l","a","c","e","h","o","l","d",".","c","o","/","4","0","0","x","4","0","0","?","t","e","x","t","=">>
\* "https://via.placeholder.com/300x300?text=eBay+"
S_ebay_mock_image_prefix ==
    <<"h","t","t","p","s",":","/","/","v","i","a",".","p","l","a","c","e","h","o","l","d","e","r",".","c","o","m","/","3","0","0","x","3","0","0","?","t","e","x","t","=","e","B","a","y","+">>
\* "https://via.placeholder.com/300x300?text=Walmart+"
S_walmart_mock_image_prefix ==
    <<"h","t","t","p","s",":","/","/","v","i","a",".","p","l","a","c","e","h","o","l","d","e","r",".","c","o","m","/","3","0","0","x","3","0","0","?","t","e","x","t","=","W","a","l","m","a","r","t","+">>
\* "https://img.example/p.jpg"
S_real_image ==
    <<"h","t","t","p","s",":","/","/","i","m","g",".","e","x","a","m","p","l","e","/","p",".","j","p","g">>
\* "https://www.amazon.com"
S_amazon_base ==
    <<"h","t","t","p","s",":","/","/","w","w","w",".","a","m","a","z","o","n",".","c","o","m">>
\* "https://www.ebay.com"
S_ebay_base ==
    <<"h","t","t","p","s",":","/","/","w","w","w",".","e","b","a","y",".","c","o","m">>
\* "https://www.walmart.com"
S_walmart_base ==
    <<"h","t","t","p","s",":","/","/","w","w","w",".","w","a","l","m","a","r","t",".","c","o","m">>
\* "/s?k="
S_amazon_path ==
    <<"/","s","?","k","=">>
\* "/sch/i.html?_nkw="
S_ebay_path ==
    <<"/","s","c","h","/","i",".","h","t","m","l","?","_","n","k","w","=">>
\* "&_ipg=60"
S_ipg60 ==
    <<"&","_","i","p","g","=","6","0">>
\* "&_ipg=25"
S_ipg25 ==
    <<"&","_","i","p","g","=","2","5">>
\* "/search?q="
S_walmart_path ==
    <<"/","s","e","a","r","c","h","?","q","=">>
\* "&sort=price_low"
S_sort_price_low ==
    <<"&","s","o","r","t","=","p","r","i","c","e","_","l","o","w">>
\* "&sort=best_match"
S_sort_best_match ==
    <<"&","s","o","r","t","=","b","e","s","t","_","m","a","t","c","h">>
\* "scraper"
S_scraper ==
    <<"s","c","r","a","p","e","r">>
\* "AmazonScraper"
S_AmazonScraper ==
    <<"A","m","a","z","o","n","S","c","r","a","p","e","r">>
\* "EbayScraper"
S_EbayScraper ==
    <<"E","b","a","y","S","c","r","a","p","e","r">>
\* "WalmartScraper"
S_WalmartScraper ==
    <<"W","a","l","m","a","r","t","S","c","r","a","p","e","r">>
\* "amazon"
S_amazon ==
    <<"a","m","a","z","o","n">>
\* "ebay"
S_ebay ==
    <<"e","b","a","y">>
\* "walmart"
S_walmart ==
    <<"w","a","l","m","a","r","t">>
\* "Amazon"
S_Amazon ==
    <<"A","m","a","z","o","n">>
\* "EBAY"
S_EBAY ==
    <<"E","B","A","Y">>
\* "target"
S_target ==
    <<"t","a","r","g","e","t">>
\* "tv"
S_tv ==
    <<"t","v">>
UpperToLower ==
    ("A" :> "a") @@ ("B" :> "b") @@ ("C" :> "c") @@ ("D" :> "d") @@ ("E" :> "e") @@ ("F" :> "f") @@
    ("G" :> "g") @@ ("H" :> "h") @@ ("I" :> "i") @@ ("J" :> "j") @@ ("K" :> "k") @@ ("L" :> "l") @@
    ("M" :> "m") @@ ("N" :> "n") @@ ("O" :> "o") @@ ("P" :> "p") @@ ("Q" :> "q") @@ ("R" :> "r") @@
    ("S" :> "s") @@ ("T" :> "t") @@ ("U" :> "u") @@ ("V" :> "v") @@ ("W" :> "w") @@ ("X" :> "x") @@
    ("Y" :> "y") @@ ("Z" :> "z")

(***************************************************************************)
(* Python string operations, on sequences of characters                    *)
(***************************************************************************)
\* one character of str.lower()
LowerChar(c) == IF c \in DOMAIN UpperToLower THEN UpperToLower[c] ELSE c

\* str.lower()
Lower(s) == [i \in 1..Len(s) |-> LowerChar(s[i])]

\* s[i:].startswith(sub), i counted from 1
StartsWithAt(s, sub, i) ==
    /\ i + Len(sub) - 1 <= Len(s)
    /\ \A k \in 1..Len(sub) : s[i + k - 1] = sub[k]

\* the substring test  sub in s
Contains(sub, s) == \E i \in 1..(Len(s) - Len(sub) + 1) : StartsWithAt(s, sub, i)

RECURSIVE ReplaceFrom(_, _, _, _)
ReplaceFrom(s, old, new, i) ==
    IF i > Len(s) THEN <<>>
    ELSE IF StartsWithAt(s, old, i)
         THEN new \o ReplaceFrom(s, old, new, i + Len(old))
         ELSE <<s[i]>> \o ReplaceFrom(s, old, new, i + 1)

\* str.replace(old, new), old not empty: left to right, not overlapping
Replace(s, old, new) == ReplaceFrom(s, old, new, 1)

(***************************************************************************)
(* The scrapers (the instances api_clients.py constructs) and their URLs   *)
(***************************************************************************)
Scrapers == {"amazon", "ebay", "walmart"}

\* ScraperManager([amazon_scraper, ebay_scraper, walmart_scraper])
ScraperOrder == <<"amazon", "ebay", "walmart">>

\* scraper.__class__.__name__
ClassName(s) ==
    CASE s = "amazon" -> S_AmazonScraper
      [] s = "ebay" -> S_EbayScraper
      [] s = "walmart" -> S_WalmartScraper

\* self.base_url
base_url(s) ==
    CASE s = "amazon" -> S_amazon_base
      [] s = "ebay" -> S_ebay_base
      [] s = "walmart" -> S_walmart_base

\* query.replace(' ', '+')
QueryParam(query) == Replace(query, S_space, S_plus)

\* the search URLs an extractor fetches for a query, in the order it tries them
search_strategies(s, query) ==
    CASE s = "amazon" ->
           << base_url(s) \o S_amazon_path \o QueryParam(query) >>
      [] s = "ebay" ->
           << base_url(s) \o S_ebay_path \o QueryParam(query) \o S_ipg60,
              base_url(s) \o S_ebay_path \o QueryParam(query) \o S_ipg25,
              base_url(s) \o S_ebay_path \o QueryParam(query) >>
      [] s = "walmart" ->
           << base_url(s) \o S_walmart_path \o QueryParam(query),
              base_url(s) \o S_walmart_path \o QueryParam(query) \o S_sort_price_low,
              base_url(s) \o S_walmart_path \o QueryParam(query) \o S_sort_best_match >>

(***************************************************************************)
(* BaseScraper.get_page_content: the disk cache                            *)
(***************************************************************************)
\* clean_url: the file name a URL is cached under
clean_url(url) ==
    Replace(Replace(Replace(Replace(Replace(url, S_https, <<>>), S_http, <<>>),
                            S_slash, S_underscore),
                    S_qmark, S_underscore),
            S_equals, S_underscore)

\* the queries of the model
Queries == { <<>>, S_tv }

\* every URL the extractors fetch in the model
AllURLs ==
    UNION { { search_strategies(s, q)[k] : k \in 1..Len(search_strategies(s, q)) } :
            s \in Scrapers, q \in Queries }

\* clean_url of every URL of the model, computed once
CleanUrlOf == [u \in AllURLs |-> clean_url(u)]

\* cache_file, relative to cache_dir
cache_file(url) == CleanUrlOf[url] \o S_html_ext

\* a cached file: its content and its modification time (hours)
CacheEntry(body, mtime) == [body |-> body, mtime |-> mtime]

\* html of len characters that parses to the result nodes `nodes`
Html(len, nodes) == [len |-> len, nodes |-> nodes]

\* Python's None where html is expected
NoHtml == Html(-1, << >>)

\* what open(cache_file, 'w') leaves when f.write(html) then fails
TruncatedBody == Html(0, << >>)

\* the age taken in seconds and compared with the window in hours
CacheIsValidSeconds(c, url, force_refresh, t) ==
    /\ cache_file(url) \in DOMAIN c
    /\ ~force_refresh
    /\ (t - c[cache_file(url)].mtime) * 3600 < cache_timeout_hours

\* the window closed one hour late
CacheIsValidStrictLe(c, url, force_refresh, t) ==
    /\ cache_file(url) \in DOMAIN c
    /\ ~force_refresh
    /\ t - c[cache_file(url)].mtime <= cache_timeout_hours

\* os.path.exists(cache_file) and not force_refresh and file_age_hours < cache_timeout_hours
CacheIsValid(c, url, force_refresh, t) ==
    /\ cache_file(url) \in DOMAIN c
    /\ ~force_refresh
    /\ t - c[cache_file(url)].mtime < cache_timeout_hours

\* the cached branch: the body read, or NoHtml when it is not taken or f.read() raises
CacheRead(c, url, force_refresh, t, readOk) ==
    IF CacheIsValid(c, url, force_refresh, t) /\ readOk
    THEN c[cache_file(url)].body
    ELSE NoHtml

(***************************************************************************)
(* BaseScraper.get_page_content: one pass of the retry loop                *)
(*                                                                         *)
(* An attempt's outcome o is what the environment does to it:              *)
(*   o.kind  "neterr"  session.get raises (timeout, connection, retries)   *)
(*           "http503" the response has status 503                        *)
(*           "httperr" raise_for_status() raises (4xx, 5xx)                *)
(*           "ok"      a 2xx response / a rendered page with body o.html   *)
(*   o.write "ok", "openfail" (open raises), "writefail" (f.write raises)  *)
(* On the Selenium path every kind but "ok" is a render failure, and so is *)
(* every render when selenium is not installed: _get_with_selenium         *)
(* catches it and returns None.                                            *)
(***************************************************************************)
\* the browser on every pass once the flag is set
ViaSeleniumAlways(i, usesel) == usesel

\* if self.use_selenium and i == attempts - 1
ViaSelenium(i, usesel) == usesel /\ i = MAX_RETRIES - 1

\* the exception the request part of the try block raises, or None
RequestException(i, usesel, o) ==
    IF ~ViaSelenium(i, usesel) /\ o.kind # "ok" THEN o.kind ELSE None

\* html after the request part
FetchedHtml(i, usesel, o, selInst) ==
    IF ViaSelenium(i, usesel)
    THEN IF selInst /\ o.kind = "ok" THEN o.html ELSE NoHtml
    ELSE IF o.kind = "ok" THEN o.html ELSE NoHtml

\* the threshold off by one
AcceptableAtLeast(html) == html.len > 0 /\ html.len >= MinBodyLen

\* if html and len(html) > 200
Acceptable(html) == html.len > 0 /\ html.len > MinBodyLen

\* except requests.RequestException: the bare Exception("HTTP 503") and the
\* OSError of the cache write escape
CatchesRequestsOnly(exc) == exc \in {"neterr", "httperr"}

\* except Exception as e: every exception of the try block is caught
Catches(exc) == TRUE

\* in the except branch: if i == attempts - 2: import selenium; self.use_selenium = True
Escalates(i, exc, selInst) ==
    exc # None /\ Catches(exc) /\ i = MAX_RETRIES - 2 /\ selInst

\* Retry(total=MAX_RETRIES, status_forcelist=[429, 500, 502, 503, 504]) of the
\* adapter mounted on the session
RetryTotal == MAX_RETRIES

\* the resends of the adapter within one session.get: all of them when the
\* request fails to the end, any number when a later send is answered
Resends(o) ==
    IF o.kind \in {"neterr", "http503"} THEN {RetryTotal} ELSE {0, RetryTotal}

\* the browser's page load counted as a session.get
TransportSendsThroughBrowser(i, usesel, resends) == 1 + resends

\* the HTTP requests one pass sends: none through the browser, else the
\* request of session.get and the adapter's resends
TransportSends(i, usesel, resends) ==
    IF ViaSelenium(i, usesel) THEN 0 ELSE 1 + resends

\* One pass of "for i in range(attempts)": the html returned (or NoHtml), the
\* exception that escapes (or None), the cache and use_selenium afterwards, and
\* what happened ("accepted", "short", "renderfail", or the exception caught).
AttemptStep(i, usesel, c, url, o, selInst, t) ==
    LET exc1 == RequestException(i, usesel, o)
        html == FetchedHtml(i, usesel, o, selInst)
        ok   == exc1 = None /\ Acceptable(html)
        key  == cache_file(url)
        \* with open(cache_file, 'w') as f: f.write(html)
        c2   == IF ~ok \/ o.write = "openfail" THEN c
                ELSE IF o.write = "writefail"
                     THEN [k \in DOMAIN c \cup {key} |->
                             IF k = key THEN CacheEntry(TruncatedBody, t) ELSE c[k]]
                     ELSE [k \in DOMAIN c \cup {key} |->
                             IF k = key THEN CacheEntry(html, t) ELSE c[k]]
        exc  == IF exc1 # None THEN exc1
                ELSE IF ok /\ o.write # "ok" THEN o.write
                ELSE None
        usesel2 == IF Escalates(i, exc, selInst) THEN TRUE ELSE usesel
    IN [ html    |-> IF ok /\ exc = None THEN html ELSE NoHtml,
         raised  |-> IF exc # None /\ ~Catches(exc) THEN exc ELSE None,
         cache   |-> c2,
         usesel  |-> usesel2,
         fetched |-> html,
         path    |-> IF ViaSelenium(i, usesel) THEN "selenium" ELSE "http",
         what    |-> IF exc # None THEN exc
                     ELSE IF ok THEN "accepted"
                     ELSE IF ViaSelenium(i, usesel) /\ html = NoHtml THEN "renderfail"
                     ELSE "short" ]

(***************************************************************************)
(* State                                                                   *)
(***************************************************************************)
VARIABLES
    cache,              \* the cache directory: file name -> CacheEntry
    now,                \* time.time(), in hours
    use_selenium,       \* scraper -> self.use_selenium
    selenium_installed, \* whether "import selenium" succeeds
    fetch,              \* the get_page_content call in progress, or the last one
    nFetches,           \* get_page_content calls started (SpecFetch)
    mgr,                \* the ScraperManager.search_products call in progress, or the last one
    history,            \* the finished ScraperManager.search_products calls before it (SpecTwice)
    probe,              \* the call of another entry point in progress, or the last one
    ALLOW_FAKE          \* scraper_manager.ALLOW_FAKE, read from ALLOW_FAKE_PRODUCTS at import

vars == <<cache, now, use_selenium, selenium_installed, fetch, nFetches, mgr, history,
          probe, ALLOW_FAKE>>

(***************************************************************************)
(* The pages the environment serves                                        *)
(***************************************************************************)
\* a result node of a search page: what the field selectors find in it
Node(id, title, price, image) ==
    [id |-> id, title |-> title, price |-> price, image |-> image]

\* a page with two complete result nodes, a page with none, and a body of
\* exactly the threshold length
PageA == Html(MinBodyLen + 1, << Node(1, TRUE, "num", TRUE), Node(2, TRUE, "num", TRUE) >>)
PageB == Html(MinBodyLen + 1, << >>)
ShortPage == Html(MinBodyLen, << >>)

Outcome(kind, html, write) == [kind |-> kind, html |-> html, write |-> write]

\* the outcomes of one attempt that SpecFetch draws from
FetchOutcomes ==
    { Outcome(k, ShortPage, "ok") : k \in {"neterr", "http503", "httperr", "ok"} }
    \cup { Outcome("ok", PageA, w) : w \in {"ok", "openfail", "writefail"} }

\* the (scraper, url) pairs SpecFetch fetches
FetchTargets ==
    { <<"amazon", search_strategies("amazon", S_tv)[1]>>,
      <<"ebay", search_strategies("ebay", S_tv)[1]>> }

\* the steps of the clock: just inside, at and past the cache window
TickHours == {cache_timeout_hours - 1, cache_timeout_hours, cache_timeout_hours + 1}

NoEntry == CacheEntry(NoHtml, -1)

EntryOf(c, url) == IF cache_file(url) \in DOMAIN c THEN c[cache_file(url)] ELSE NoEntry

NoAttempt ==
    [i |-> -1, path |-> "none", what |-> "none", usesel |-> FALSE, fetched |-> NoHtml]

\* sources=None, and a list of source names
NoSources == [given |-> FALSE, names |-> {}]

SourceList(names) == [given |-> TRUE, names |-> names]

IdleMgr ==
    [ pc |-> "idle", query |-> << >>, limit |-> 0, sources |-> NoSources,
      parallel |-> FALSE, active |-> << >>, pending |-> << >>, runs |-> << >>,
      results |-> << >>, returned |-> << >>, raised |-> None ]

\* no call of another entry point
NoProbe == [pc |-> "none"]

IdleFetch ==
    [ pc |-> "idle", scraper |-> "none", url |-> <<>>, force_refresh |-> FALSE,
      readOk |-> TRUE, before |-> NoEntry, at |-> 0, i |-> 0, attempts |-> 0,
      last |-> NoAttempt, html |-> NoHtml, raised |-> None, hit |-> FALSE,
      usesel0 |-> FALSE, requests |-> 0 ]

(***************************************************************************)
(* SpecFetch: get_page_content, one pass of the retry loop per step        *)
(***************************************************************************)
\* The cache directory outlives the process (os.makedirs(exist_ok=True)): at
\* construction each file of FetchTargets is absent or holds an earlier page.
InitCaches ==
    LET keys == { cache_file(tg[2]) : tg \in FetchTargets }
    IN UNION { [K -> {CacheEntry(PageB, 0)}] : K \in SUBSET keys }

InitFetch ==
    /\ cache \in InitCaches
    /\ now = 0
    \* AmazonScraper: SCRAPER_USE_SELENIUM_AMAZON; EbayScraper, WalmartScraper: True
    /\ use_selenium \in { [s \in Scrapers |-> IF s = "amazon" THEN b ELSE TRUE] : b \in BOOLEAN }
    /\ selenium_installed \in BOOLEAN
    /\ fetch = IdleFetch
    /\ nFetches = 0
    /\ mgr = IdleMgr
    /\ history = << >>
    /\ probe = NoProbe
    /\ ALLOW_FAKE = TRUE

\* get_page_content(url, force_refresh) up to the retry loop: the cached branch
BeginFetch(s, url, force_refresh, readOk) ==
    /\ fetch.pc \in {"idle", "done"}
    /\ nFetches < MaxFetches
    /\ (readOk = FALSE => CacheIsValid(cache, url, force_refresh, now))
    /\ LET body == CacheRead(cache, url, force_refresh, now, readOk)
           f0   == [ IdleFetch EXCEPT !.scraper = s, !.url = url,
                                      !.force_refresh = force_refresh,
                                      !.readOk = readOk,
                                      !.before = EntryOf(cache, url),
                                      !.at = now,
                                      !.usesel0 = use_selenium[s] ]
       IN fetch' = IF body # NoHtml
                   THEN [f0 EXCEPT !.pc = "done", !.html = body, !.hit = TRUE]
                   ELSE [f0 EXCEPT !.pc = "loop"]
    /\ nFetches' = nFetches + 1
    /\ UNCHANGED <<cache, now, use_selenium, selenium_installed, mgr, history, probe, ALLOW_FAKE>>

\* one pass of the retry loop, and the return that ends the call
Attempt(o, resends) ==
    /\ fetch.pc = "loop"
    /\ LET s == fetch.scraper
           r == AttemptStep(fetch.i, use_selenium[s], cache, fetch.url, o,
                            selenium_installed, now)
           f1 == [ fetch EXCEPT !.attempts = @ + 1,
                                !.requests = @ + TransportSends(fetch.i, use_selenium[s],
                                                                resends),
                                !.last = [ i |-> fetch.i, path |-> r.path,
                                           what |-> r.what,
                                           usesel |-> use_selenium[s],
                                           fetched |-> r.fetched ] ]
       IN /\ cache' = r.cache
          /\ use_selenium' = [use_selenium EXCEPT ![s] = r.usesel]
          /\ fetch' =
               IF r.raised # None
               THEN [f1 EXCEPT !.pc = "done", !.raised = r.raised]
               ELSE IF r.html # NoHtml
               THEN [f1 EXCEPT !.pc = "done", !.html = r.html]
               ELSE IF fetch.i + 1 >= MAX_RETRIES
               THEN [f1 EXCEPT !.pc = "done", !.html = NoHtml]
               ELSE [f1 EXCEPT !.i = @ + 1]
    /\ UNCHANGED <<now, selenium_installed, nFetches, mgr, history, probe, ALLOW_FAKE>>

\* time passes between calls
TickFetch(d) ==
    /\ fetch.pc \in {"idle", "done"}
    /\ now + d <= MaxNow
    /\ now' = now + d
    /\ UNCHANGED <<cache, use_selenium, selenium_installed, fetch, nFetches, mgr, history, probe, ALLOW_FAKE>>

NextFetch ==
    \/ \E tg \in FetchTargets, fr \in BOOLEAN, rd \in BOOLEAN :
           BeginFetch(tg[1], tg[2], fr, rd)
    \/ \E o \in FetchOutcomes : \E resends \in Resends(o) : Attempt(o, resends)
    \/ \E d \in TickHours : TickFetch(d)

SpecFetch == InitFetch /\ [][NextFetch]_vars

(***************************************************************************)
(* Claims about get_page_content (SpecFetch)                               *)
(***************************************************************************)
FailureKinds ==
    {"neterr", "http503", "httperr", "short", "renderfail", "openfail", "writefail"}

FreshAtCall ==
    /\ fetch.pc # "idle"
    /\ fetch.before # NoEntry
    /\ fetch.at - fetch.before.mtime < cache_timeout_hours
    /\ ~fetch.force_refresh

ServedFromCache ==
    /\ fetch.pc = "done"
    /\ fetch.hit
    /\ fetch.html = fetch.before.body
    /\ fetch.attempts = 0
    /\ EntryOf(cache, fetch.url) = fetch.before

\* C5 as stated: an entry younger than the TTL and force_refresh false always
\* give the stored body, with no network request and no browser render.
C5_CacheHitAlways ==
    FreshAtCall => /\ fetch.attempts = 0
                   /\ (fetch.pc = "done" => ServedFromCache)

\* C5 as amended: the same, provided the cached file can be read; when reading
\* it raises, the call goes on to the retry loop.
C5_CacheHitWhenReadable ==
    /\ (FreshAtCall /\ fetch.readOk => ServedFromCache)
    /\ (FreshAtCall /\ ~fetch.readOk => ~fetch.hit /\ (fetch.pc = "done" => fetch.attempts >= 1))

\* C5 witness: a read 23 hours after the entry was written is served from it.
C5_Witness ==
    /\ ServedFromCache
    /\ fetch.at - fetch.before.mtime = cache_timeout_hours - 1

RECURSIVE RetryLoop(_, _, _, _, _, _, _)
\* what follows pass i of the loop, r being what the pass did
AfterAttempt(i, r, url, outs, selInst, t) ==
    IF r.raised # None \/ r.html # NoHtml
    THEN [ html |-> r.html, raised |-> r.raised, cache |-> r.cache,
           usesel |-> r.usesel, attempts |-> i + 1, hit |-> FALSE ]
    ELSE RetryLoop(i + 1, r.usesel, r.cache, url, outs, selInst, t)

\* for i in range(attempts): ... return None
RetryLoop(i, usesel, c, url, outs, selInst, t) ==
    IF i >= MAX_RETRIES
    THEN [ html |-> NoHtml, raised |-> None, cache |-> c, usesel |-> usesel,
           attempts |-> i, hit |-> FALSE ]
    ELSE AfterAttempt(i, AttemptStep(i, usesel, c, url, outs[i + 1], selInst, t),
                      url, outs, selInst, t)

\* the cached branch served body
ServedBody(body, c, usesel) ==
    [ html |-> body, raised |-> None, cache |-> c, usesel |-> usesel,
      attempts |-> 0, hit |-> TRUE ]

get_page_content(usesel, c, url, force_refresh, env, selInst, t) ==
    IF CacheIsValid(c, url, force_refresh, t) /\ env.readOk
    THEN ServedBody(c[cache_file(url)].body, c, usesel)
    ELSE RetryLoop(0, usesel, c, url, env.outs, selInst, t)

\* "if not html": None or the empty string
NotHtml(html) == html.len <= 0

(***************************************************************************)
(* Listings                                                                *)
(***************************************************************************)
\* a key the dict does not have
Absent == << "<absent>" >>

\* price of a dict without the key "price"
NoPrice == -1

\* A product dict: its source, whether a fallback generator made it, the result
\* node (or generator index) it comes from, and the fields the manager reads.
Listing(source, synthetic, n, title, price, image, image_url) ==
    [ source |-> source, synthetic |-> synthetic, n |-> n, title |-> title,
      price |-> price, image |-> image, image_url |-> image_url ]

Digits == << "1", "2", "3", "4", "5", "6", "7", "8", "9" >>

\* str(i) of one digit
DigitStr(i) == << Digits[i] >>

Max(a, b) == IF a >= b THEN a ELSE b

Min(a, b) == IF a <= b THEN a ELSE b

\* range(n): its length
RangeLen(n) == Max(n, 0)

\* the source string of a scraper, as passed to the generators
SourceStr(s) ==
    CASE s = "amazon" -> S_amazon
      [] s = "ebay" -> S_ebay
      [] s = "walmart" -> S_walmart

\* the prices the generators centre on (random.uniform, hash(query))
FakeBasePrice == 100

\* the generator without its cap
generate_fake_products_uncapped(query, limit, s, rnd) ==
    [ i \in 1..RangeLen(limit) |->
        Listing(s, TRUE, i, TRUE, FakeBasePrice + rnd[i],
                S_fake_image_prefix \o SourceStr(s) \o S_plus \o DigitStr(i), Absent) ]

\* BaseScraper.generate_fake_products(query, limit, source)
generate_fake_products(query, limit, s, rnd) ==
    [ i \in 1..RangeLen(Min(limit, FakeCap)) |->
        Listing(s, TRUE, i, TRUE, FakeBasePrice + rnd[i],
                S_fake_image_prefix \o SourceStr(s) \o S_plus \o DigitStr(i), Absent) ]

\* the image_url of EbayScraper / WalmartScraper mock products
MockImageUrl(s, query) ==
    IF s = "ebay" THEN S_ebay_mock_image_prefix \o QueryParam(query)
    ELSE S_walmart_mock_image_prefix \o QueryParam(query)

\* the mock generator with an image reference that follows the random draw
generate_realistic_mock_products_random_image(query, limit, s, rnd) ==
    [ i \in 1..RangeLen(limit) |->
        Listing(s, TRUE, i, TRUE, FakeBasePrice + rnd[i], Absent,
                MockImageUrl(s, query) \o DigitStr(rnd[i] + 1)) ]

\* EbayScraper / WalmartScraper ._generate_realistic_mock_products(query, limit, source)
generate_realistic_mock_products(query, limit, s, rnd) ==
    [ i \in 1..RangeLen(limit) |->
        Listing(s, TRUE, i, TRUE, FakeBasePrice + rnd[i], Absent, MockImageUrl(s, query)) ]

\* the product dict an extractor builds from a result node
RealListing(s, node) ==
    Listing(s, FALSE, node.id, node.title,
            IF node.price = "num" THEN 10 ELSE NoPrice,
            IF node.image THEN S_real_image ELSE Absent, Absent)

\* seq[:n]
SliceTo(seq, n) ==
    IF n >= 0 THEN SubSeq(seq, 1, Min(n, Len(seq)))
    ELSE SubSeq(seq, 1, Max(Len(seq) + n, 0))

\* float(m.group(0).replace(',', '')) of a price text the regex matches without
\* a digit raises ValueError
PriceRaises(nodes) == \E k \in 1..Len(nodes) : nodes[k].price = "bad"

\* what one get_page_content call of an extractor did: strategy k, the number
\* of passes of the retry loop, whether the cache served it, whether it returned
\* html, and whether the cached file could be read
FetchLog(k, f, env) ==
    [ k |-> k, attempts |-> f.attempts, hit |-> f.hit, got |-> ~NotHtml(f.html),
      readOk |-> env.readOk, html |-> f.html ]

ExtractResult(products, raised, c, usesel, fetches) ==
    [ products |-> products, raised |-> raised, cache |-> c, usesel |-> usesel,
      fetches |-> fetches ]

(***************************************************************************)
(* AmazonScraper.search_products                                           *)
(***************************************************************************)
\* a title is enough
AmazonEmitsTitleOnly(node) == node.title

\* if 'title' in product and ('image' in product or 'price' in product)
AmazonEmits(node) == node.title /\ (node.image \/ node.price = "num")

\* search_products after "html = self.get_page_content(search_url)", f being
\* what that call did
amazon_after_fetch(query, limit, rnd, f, log) ==
    LET \* for i, item in enumerate(results): if i >= limit: break
        items == SubSeq(f.html.nodes, 1, Min(RangeLen(limit), Len(f.html.nodes)))
        kept  == SelectSeq(items, AmazonEmits)
        real  == [ k \in 1..Len(kept) |-> RealListing("amazon", kept[k]) ]
        fake  == generate_fake_products(query, limit, "amazon", rnd)
    IN IF f.raised # None
       THEN ExtractResult(<< >>, f.raised, f.cache, f.usesel, log)
       ELSE IF NotHtml(f.html)
       THEN ExtractResult(fake, None, f.cache, f.usesel, log)
       ELSE IF PriceRaises(items)
       THEN ExtractResult(<< >>, "ValueError", f.cache, f.usesel, log)
       ELSE IF real = << >> /\ query # << >>
       THEN ExtractResult(fake, None, f.cache, f.usesel, log)
       ELSE ExtractResult(real, None, f.cache, f.usesel, log)

amazon_fetched(query, limit, rnd, f, env) ==
    amazon_after_fetch(query, limit, rnd, f, << FetchLog(1, f, env) >>)

amazon_search_products(query, limit, c, usesel, envs, rnd, selInst, t) ==
    amazon_fetched(query, limit, rnd,
                   get_page_content(usesel, c, search_strategies("amazon", query)[1],
                                    FALSE, envs[1], selInst, t),
                   envs[1])

(***************************************************************************)
(* EbayScraper.search_products                                             *)
(***************************************************************************)
\* if 'title' in product: products.append(product)
EbayEmits(node) == node.title

\* "for item in results" without the slice
EbayItemsAll(nodes, limit) == nodes

\* for item in results[:limit]
EbayItems(nodes, limit) == SliceTo(nodes, limit)

RECURSIVE ebay_strategies(_, _, _, _, _, _, _, _, _, _)
\* the body of the strategy loop after "html = self.get_page_content(search_url)"
ebay_after_fetch(k, query, limit, envs, rnd, selInst, t, f, log) ==
    LET items == EbayItems(f.html.nodes, limit)
        kept  == SelectSeq(items, EbayEmits)
        real  == [ j \in 1..Len(kept) |-> RealListing("ebay", kept[j]) ]
    IN IF f.raised # None
       THEN ExtractResult(<< >>, f.raised, f.cache, f.usesel, log)
       ELSE IF ~NotHtml(f.html) /\ PriceRaises(items)
       THEN ExtractResult(<< >>, "ValueError", f.cache, f.usesel, log)
       ELSE IF ~NotHtml(f.html) /\ real # << >>
       THEN ExtractResult(real, None, f.cache, f.usesel, log)
       ELSE ebay_strategies(k + 1, query, limit, f.cache, f.usesel, envs,
                            rnd, selInst, t, log)

ebay_fetched(k, query, limit, envs, rnd, selInst, t, f, fetches) ==
    ebay_after_fetch(k, query, limit, envs, rnd, selInst, t, f,
                     Append(fetches, FetchLog(k, f, envs[k])))

\* for i, search_url in enumerate(search_strategies): ... and the mock fallback
ebay_strategies(k, query, limit, c, usesel, envs, rnd, selInst, t, fetches) ==
    IF k > Len(search_strategies("ebay", query))
    THEN ExtractResult(generate_realistic_mock_products(query, limit, "ebay", rnd),
                       None, c, usesel, fetches)
    ELSE ebay_fetched(k, query, limit, envs, rnd, selInst, t,
                      get_page_content(usesel, c, search_strategies("ebay", query)[k],
                                       FALSE, envs[k], selInst, t),
                      fetches)

ebay_search_products(query, limit, c, usesel, envs, rnd, selInst, t) ==
    ebay_strategies(1, query, limit, c, usesel, envs, rnd, selInst, t, << >>)

(***************************************************************************)
(* WalmartScraper.search_products                                          *)
(*                                                                         *)
(* The strategy loop only fetches and parses: its body ends at             *)
(* "products = []", and the code that reads the result nodes follows the   *)
(* loop.  So every strategy is fetched, soup is the page of the last       *)
(* strategy that returned html, and soup is unbound when none did.         *)
(***************************************************************************)
NoSoup == Html(-2, << >>)

RECURSIVE walmart_fetch_all(_, _, _, _, _, _, _, _, _, _)
\* the body of the strategy loop after "html = self.get_page_content(search_url)"
walmart_after_fetch(k, query, envs, selInst, t, soup, fetches, f) ==
    walmart_fetch_all(k + 1, query, f.cache, f.usesel, envs, selInst, t,
                      IF NotHtml(f.html) THEN soup ELSE f.html,
                      Append(fetches, FetchLog(k, f, envs[k])), f.raised)

\* for i, search_url in enumerate(search_strategies)
walmart_fetch_all(k, query, c, usesel, envs, selInst, t, soup, fetches, raised) ==
    IF k > Len(search_strategies("walmart", query)) \/ raised # None
    THEN [ soup |-> soup, cache |-> c, usesel |-> usesel, fetches |-> fetches,
           raised |-> raised ]
    ELSE walmart_after_fetch(k, query, envs, selInst, t, soup, fetches,
                             get_page_content(usesel, c, search_strategies("walmart", query)[k],
                                              FALSE, envs[k], selInst, t))

\* "if not title: continue"
WalmartEmits(node) == node.title

\* "for node in results": products.append(product) is followed, inside the
\* loop, by "if products: return products"
walmart_products(nodes, limit) ==
    LET kept == SelectSeq(nodes, WalmartEmits)
    IN IF limit <= 0 \/ kept = << >> THEN << >>
       ELSE << RealListing("walmart", kept[1]) >>

\* search_products after its strategy loop, w being what the loop left
walmart_after_loop(query, limit, rnd, w) ==
    LET real == walmart_products(w.soup.nodes, limit)
    IN IF w.raised # None
       THEN ExtractResult(<< >>, w.raised, w.cache, w.usesel, w.fetches)
       ELSE IF w.soup = NoSoup
       THEN ExtractResult(<< >>, "UnboundLocalError", w.cache, w.usesel, w.fetches)
       ELSE IF real # << >>
       THEN ExtractResult(real, None, w.cache, w.usesel, w.fetches)
       ELSE ExtractResult(generate_realistic_mock_products(query, limit, "walmart", rnd),
                          None, w.cache, w.usesel, w.fetches)

walmart_search_products(query, limit, c, usesel, envs, rnd, selInst, t) ==
    walmart_after_loop(query, limit, rnd,
                       walmart_fetch_all(1, query, c, usesel, envs, selInst, t,
                                         NoSoup, << >>, None))

\* scraper.search_products(query, limit)
search_products(s, query, limit, c, usesel, envs, rnd, selInst, t) ==
    CASE s = "amazon" -> amazon_search_products(query, limit, c, usesel, envs, rnd, selInst, t)
      [] s = "ebay" -> ebay_search_products(query, limit, c, usesel, envs, rnd, selInst, t)
      [] s = "walmart" -> walmart_search_products(query, limit, c, usesel, envs, rnd, selInst, t)

(***************************************************************************)
(* ScraperManager._normalize_product_fields                                *)
(*                                                                         *)
(* The value under the key "price" is absent, a float with a whole value,  *)
(* or a string (a sequence of characters).  float() is modelled on the     *)
(* decimal literals: blanks around, a sign, digits with at most one point. *)
(* A price is kept in hundredths, so that "12.34" has a value.             *)
(***************************************************************************)
PriceAbsent == [kind |-> "absent"]

PriceNum(n) == [kind |-> "num", n |-> n]

PriceStr(s) == [kind |-> "str", s |-> s]

DecimalDigits == << "0", "1", "2", "3", "4", "5", "6", "7", "8", "9" >>

DigitVal(ch) == (CHOOSE d \in 1..Len(DecimalDigits) : DecimalDigits[d] = ch) - 1

\* the decimal digits of a natural number
RECURSIVE NatStr(_)
NatStr(n) ==
    IF n < Len(DecimalDigits) THEN << DecimalDigits[n + 1] >>
    ELSE NatStr(n \div Len(DecimalDigits)) \o << DecimalDigits[(n % Len(DecimalDigits)) + 1] >>

\* the natural number of a sequence of digits
RECURSIVE NatOf(_)
NatOf(ds) ==
    IF ds = << >> THEN 0
    ELSE NatOf(SubSeq(ds, 1, Len(ds) - 1)) * Len(DecimalDigits) + DigitVal(ds[Len(ds)])

\* str(price)
PyStr(v) ==
    IF v.kind = "str" THEN v.s
    ELSE (IF v.n < 0 THEN << "-" >> ELSE << >>)
         \o NatStr(IF v.n < 0 THEN -v.n ELSE v.n) \o << ".", "0" >>

\* s.strip() of blanks
RECURSIVE Strip(_)
Strip(s) ==
    IF s = << >> THEN s
    ELSE IF s[1] = " " THEN Strip(Tail(s))
    ELSE IF s[Len(s)] = " " THEN Strip(SubSeq(s, 1, Len(s) - 1))
    ELSE s

AllDigits(ds) == \A k \in 1..Len(ds) : \E d \in 1..Len(DecimalDigits) : DecimalDigits[d] = ds[k]

\* float(t) of an unsigned literal
ParseUnsigned(body, neg) ==
    LET dots == { k \in 1..Len(body) : body[k] = "." }
        dot  == IF dots = {} THEN Len(body) + 1 ELSE CHOOSE k \in dots : TRUE
        ip   == SubSeq(body, 1, dot - 1)
        fp   == SubSeq(body, dot + 1, Len(body))
        ok   == /\ Cardinality(dots) <= 1
                /\ AllDigits(ip) /\ AllDigits(fp)
                /\ Len(ip) + Len(fp) >= 1
    IN IF ok
       THEN [ raised |-> None,
              value |-> (IF neg THEN -1 ELSE 1)
                          * (NatOf(ip) * 100
                             + (IF Len(fp) >= 1 THEN 10 * DigitVal(fp[1]) ELSE 0)
                             + (IF Len(fp) >= 2 THEN DigitVal(fp[2]) ELSE 0)) ]
       ELSE [ raised |-> "ValueError", value |-> 0 ]

\* float(s): the value in hundredths, or the ValueError
float(s) ==
    LET t == Strip(s)
    IN IF t # << >> /\ t[1] \in {"-", "+"}
       THEN ParseUnsigned(Tail(t), t[1] = "-")
       ELSE ParseUnsigned(t, FALSE)

\* try: product["price"] = float(...) except Exception: product["price"] = 0.0
PriceOf(r) ==
    IF r.raised # None
    THEN [ raised |-> None, value |-> 0 ]
    ELSE r

\* the numeric price normalization: float(str(price).replace("$", "").replace(",", ""))
normalize_price(v) ==
    PriceOf(float(Replace(Replace(PyStr(IF v.kind = "absent" THEN PriceNum(0) ELSE v),
                                  << "$" >>, << >>),
                          << "," >>, << >>)))

\* if "image" in product and "image_url" not in product: product["image_url"] = product["image"]
normalize_image_url(image, image_url) ==
    IF image # Absent /\ image_url = Absent THEN image ELSE image_url

\* the fields of a Listing that _normalize_product_fields reads
ListingDict(p) ==
    [ image |-> p.image, image_url |-> p.image_url,
      price |-> IF p.price = NoPrice THEN PriceAbsent ELSE PriceNum(p.price) ]

\* ScraperManager._normalize_product_fields: the product afterwards (price in
\* hundredths) and the exception that escapes
normalize_product_fields(d) ==
    [ image |-> d.image,
      image_url |-> normalize_image_url(d.image, d.image_url),
      price |-> normalize_price(d.price) ]

(***************************************************************************)
(* ScraperManager.search_products                                          *)
(***************************************************************************)
\* s.__class__.__name__.lower().replace("scraper", "")
SourceName(s) == Replace(Lower(ClassName(s)), S_scraper, << >>)

\* the same, computed once per scraper
SourceNameOf == [s \in Scrapers |-> SourceName(s)]

\* the filter without .replace("scraper", "")
IsActiveNoStrip(s, sources) ==
    \/ ~sources.given
    \/ Lower(ClassName(s)) \in sources.names

\* the filter that ignores sources
IsActiveAll(s, sources) == TRUE

\* sources is None or s.__class__.__name__.lower().replace("scraper", "") in sources
IsActive(s, sources) ==
    \/ ~sources.given
    \/ SourceNameOf[s] \in sources.names

\* active_scrapers
active_scrapers(sources) ==
    LET Test(s) == IsActive(s, sources)
    IN SelectSeq(ScraperOrder, Test)

\* a Listing after _normalize_product_fields
NormalizedListing(p, d) ==
    [ p EXCEPT !.image_url = d.image_url, !.price = d.price.value \div 100 ]

\* run_scraper without its try
RunCatchesNothing(exc) == FALSE

\* run_scraper: except Exception as e
RunCatches(exc) == TRUE

\* run_scraper(scraper): the products it returns, or the exception that escapes
run_scraper(r) ==
    IF r.raised # None
    THEN [ products |-> << >>,
           raised |-> IF RunCatches(r.raised) THEN None ELSE r.raised ]
    ELSE [ products |-> [ k \in 1..Len(r.products) |->
                            NormalizedListing(r.products[k],
                                normalize_product_fields(ListingDict(r.products[k]))) ],
           raised |-> None ]

\* r.get("image") or r.get("image_url", "")
ImageRef(r) ==
    IF r.image # Absent /\ r.image # << >> THEN r.image
    ELSE IF r.image_url # Absent THEN r.image_url
    ELSE << >>

\* "placehold.co" not in (r.get("image") or r.get("image_url", ""))
NonPlaceholder(r) == ~Contains(S_placehold_co, ImageRef(r))

\* the results without any filtering
DemoteNothing(results) == results

\* a filter that keeps nothing but the non-placeholders
DemoteAlways(results) == SelectSeq(results, NonPlaceholder)

\* a filter decided by the first listing alone
DemoteByFirst(results) ==
    IF results # << >> /\ NonPlaceholder(results[1])
    THEN SelectSeq(results, NonPlaceholder)
    ELSE results

\* remove placeholder fake products (if mixing with real)
Demote(results) ==
    LET non_placeholders == SelectSeq(results, NonPlaceholder)
    IN IF results # << >> /\ non_placeholders # << >>
       THEN non_placeholders
       ELSE results

(***************************************************************************)
(* The inputs of Spec                                                      *)
(***************************************************************************)
\* a page one of whose prices makes float() raise
PageBad == Html(MinBodyLen + 1, << Node(1, TRUE, "bad", TRUE) >>)

\* every attempt of a fetch fails / the first attempt returns page p
AggFetchFail ==
    [ readOk |-> TRUE,
      outs |-> << Outcome("neterr", ShortPage, "ok"), Outcome("http503", ShortPage, "ok"),
                  Outcome("ok", ShortPage, "ok") >> ]

AggFetchOk(p) ==
    [ readOk |-> TRUE, outs |-> [ i \in 1..MAX_RETRIES |-> Outcome("ok", p, "ok") ] ]

AggFetchEnvs == { AggFetchFail, AggFetchOk(PageA), AggFetchOk(PageB), AggFetchOk(PageBad) }

\* what the fetches of one extractor call meet, one per strategy
ExtractorEnvs(s) ==
    LET n == Len(search_strategies(s, S_tv))
    IN { [ k \in 1..n |-> e ] : e \in AggFetchEnvs }
       \cup (IF n = 3
             THEN { << AggFetchFail, AggFetchOk(PageA), AggFetchOk(PageB) >> }
             ELSE {})

\* what random.uniform adds to the prices of one generator call
Jitter == {0, 1}

RandSeqs == { [ i \in 1..Max(MaxLimit, 1) |-> j ] : j \in Jitter }

ZeroRnd == [ i \in 1..Max(MaxLimit, 1) |-> 0 ]

\* the sources arguments of the model
SourceChoices ==
    { NoSources, SourceList({}), SourceList({S_amazon}), SourceList({S_Amazon}),
      SourceList({S_EBAY}), SourceList({S_ebay}), SourceList({S_target}),
      SourceList({S_amazon, S_ebay, S_walmart}) }

Limits == 0..MaxLimit

HasSynthetic(products) == \E k \in 1..Len(products) : products[k].synthetic

(***************************************************************************)
(* Spec: one ScraperManager.search_products call                           *)
(***************************************************************************)
Init ==
    /\ cache = << >>
    /\ now = 0
    /\ use_selenium = [s \in Scrapers |-> TRUE]
    /\ selenium_installed \in BOOLEAN
    /\ fetch = IdleFetch
    /\ nFetches = 0
    /\ mgr = IdleMgr
    /\ history = << >>
    /\ probe = NoProbe
    /\ ALLOW_FAKE = TRUE

\* the call after "active_scrapers = ..." and the early returns
Dispatched(query, limit, sources, parallel) ==
    LET active == active_scrapers(sources)
        m0 == [ IdleMgr EXCEPT !.query = query, !.limit = limit,
                               !.sources = sources, !.parallel = parallel ]
    IN IF query = << >> \/ active = << >>
       THEN [m0 EXCEPT !.pc = "done"]
       ELSE [m0 EXCEPT !.pc = "running", !.active = active, !.pending = active]

\* search_products(query, limit, sources, parallel) up to the dispatch
StartSearch(query, limit, sources, parallel) ==
    /\ mgr.pc = "idle"
    /\ mgr' = Dispatched(query, limit, sources, parallel)
    /\ UNCHANGED <<cache, now, use_selenium, selenium_installed, fetch, nFetches, history, probe, ALLOW_FAKE>>

\* results.extend(...) of a task whose extractor call did r
MergeRun(s, r, out) ==
    /\ cache' = r.cache
    /\ use_selenium' = [use_selenium EXCEPT ![s] = r.usesel]
    /\ mgr' = [ mgr EXCEPT
                  !.pending = SelectSeq(mgr.pending, LAMBDA x : x # s),
                  !.runs = Append(@, [ scraper |-> s, raised |-> r.raised,
                                       products |-> r.products, fetches |-> r.fetches ]),
                  !.results = @ \o out.products,
                  !.pc = IF out.raised # None THEN "done" ELSE @,
                  !.raised = out.raised ]

RunTask(s, r, rnd) ==
    /\ (rnd # ZeroRnd => HasSynthetic(r.products))
    /\ MergeRun(s, r, run_scraper(r))

\* one run_scraper task, and results.extend(...) of what it returns: any
\* pending task when parallel, the next of active_scrapers when not
RunScraper(s, envs, rnd) ==
    /\ mgr.pc = "running"
    /\ \E k \in 1..Len(mgr.pending) :
          /\ mgr.pending[k] = s
          /\ (~mgr.parallel => k = 1)
    /\ RunTask(s, search_products(s, mgr.query, mgr.limit, cache, use_selenium[s],
                                  envs, rnd, selenium_installed, now), rnd)
    /\ UNCHANGED <<now, selenium_installed, fetch, nFetches, history, probe, ALLOW_FAKE>>

\* a join that ends with the first task to complete
JoinedFirstCompleted(m) == m.runs # << >>

\* the as_completed loop (or the sequential loop) has taken every task
Joined(m) == m.pending = << >>

\* after the last task: the placeholder filter and the return
FinishSearch ==
    /\ mgr.pc = "running"
    /\ Joined(mgr)
    /\ mgr' = [mgr EXCEPT !.pc = "done", !.returned = Demote(mgr.results)]
    /\ UNCHANGED <<cache, now, use_selenium, selenium_installed, fetch, nFetches, history, probe, ALLOW_FAKE>>

Next ==
    \/ \E q \in Queries, l \in Limits, src \in SourceChoices, par \in BOOLEAN :
           StartSearch(q, l, src, par)
    \/ \E s \in Scrapers : \E envs \in ExtractorEnvs(s), rnd \in RandSeqs :
           RunScraper(s, envs, rnd)
    \/ FinishSearch

Spec == Init /\ [][Next]_vars

(***************************************************************************)
(* Properties of ScraperManager.search_products (Spec)                     *)
(***************************************************************************)
HasReal(products) == \E k \in 1..Len(products) : ~products[k].synthetic

Done == mgr.pc = "done"

\* the run of scraper s in the call, if it has one
RunsOf(s) == { k \in 1..Len(mgr.runs) : mgr.runs[k].scraper = s }

ActiveSet == { mgr.active[k] : k \in 1..Len(mgr.active) }

\* C1: Placeholder demotion: when the merged collection of a call holds a real
\* listing, the returned collection holds no listing made by a fallback
\* generator (generate_fake_products, _generate_realistic_mock_products).
C1_PlaceholderDemotion ==
    Done /\ HasReal(mgr.results) => ~HasSynthetic(mgr.returned)

\* C2 as claimed: the returned sequence is never longer than limit.
C2_BoundedByLimit ==
    Done => Len(mgr.returned) <= mgr.limit

\* C2: Bounded output: for every query, limit >= 0, source set and parallel
\* flag, the returned sequence is at most limit listings per active extractor
\* long; the manager returns the demoted merge without truncating it.
C2_BoundedPerExtractor ==
    Done => /\ Len(mgr.returned) <= mgr.limit * Len(mgr.active)
            /\ \A k \in 1..Len(mgr.runs) : Len(mgr.runs[k].products) <= mgr.limit
            /\ Len(mgr.returned) <= Len(mgr.results)

\* C2 witness: a finished call that returns more listings than its limit
C2_Witness ==
    /\ Done
    /\ mgr.limit >= 1
    /\ Len(mgr.returned) > mgr.limit
    /\ Len(mgr.returned) = mgr.limit * Len(mgr.active)

\* C3: Extractor totality: no search_products call of an extractor raises, and
\* one that returns no real listing returns at least limit synthetic listings.
C3_ExtractorTotality ==
    \A k \in 1..Len(mgr.runs) :
        /\ mgr.runs[k].raised = None
        /\ (~HasReal(mgr.runs[k].products) => Len(mgr.runs[k].products) >= mgr.limit)

\* the listings the manager merges for a run
Merged(run) ==
    IF run.raised # None THEN << >>
    ELSE [ k \in 1..Len(run.products) |->
             [ run.products[k] EXCEPT
                 !.image_url = IF run.products[k].image # Absent THEN run.products[k].image
                               ELSE @,
                 !.price = IF @ = NoPrice THEN 0 ELSE @ ] ]

RECURSIVE MergedUpTo(_)
MergedUpTo(n) == IF n = 0 THEN << >> ELSE MergedUpTo(n - 1) \o Merged(mgr.runs[n])

\* C8: Per-source failure isolation: when the search of an active extractor
\* raises, the manager's call does not raise; that source contributes no
\* listing, every active extractor is still run, and the merged collection is
\* the listings of the runs that did not raise, in both modes.
C8_FailureIsolation ==
    /\ mgr.raised = None
    /\ mgr.results = MergedUpTo(Len(mgr.runs))
    /\ (mgr.pc = "running" =>
            \A s \in ActiveSet :
                (\E k \in 1..Len(mgr.pending) : mgr.pending[k] = s) \/ RunsOf(s) # {})
    /\ (Done /\ mgr.active # << >> => \A s \in ActiveSet : RunsOf(s) # {})

\* C8 witness: a sequential call whose first extractor raised and whose second
\* extractor's listings are the result
C8_Witness ==
    /\ Done
    /\ Len(mgr.runs) >= 2
    /\ mgr.runs[1].raised # None
    /\ mgr.runs[2].raised = None
    /\ mgr.runs[2].products # << >>
    /\ Len(mgr.returned) = Len(mgr.runs[2].products)
    /\ ~mgr.parallel

\* the requested names match no configured extractor
NoneRequested ==
    /\ mgr.sources.given
    /\ mgr.sources.names \cap { SourceStr(s) : s \in Scrapers } = {}

\* C9: No active source: when the requested names match none of the
\* configured extractors, the call returns an empty sequence, does not raise,
\* runs no extractor and fetches nothing.
C9_NoActiveSource ==
    mgr.pc # "idle" /\ NoneRequested =>
        /\ Done
        /\ mgr.returned = << >>
        /\ mgr.raised = None
        /\ mgr.runs = << >>
        /\ cache = << >>

\* C9 witness: a call for a source no extractor serves
C9_Witness ==
    /\ Done
    /\ mgr.query # << >>
    /\ mgr.sources = SourceList({S_target})
    /\ mgr.returned = << >>

\* C10 as claimed: an extractor is active exactly when its identifier equals a
\* requested name ignoring letter case.
C10_CaseInsensitive ==
    mgr.pc # "idle" /\ mgr.query # << >> /\ mgr.sources.given =>
        \A s \in Scrapers :
            s \in ActiveSet <=> \E n \in mgr.sources.names : Lower(n) = Lower(SourceStr(s))

\* C10: Source selection: an extractor is active exactly when sources is None
\* or its lower-case identifier is, letter for letter, one of the requested
\* names; the manager does not fold the case of the requested names.
C10_ExactLowerCaseMatch ==
    mgr.pc # "idle" /\ mgr.query # << >> =>
        \A s \in Scrapers :
            s \in ActiveSet <=> (~mgr.sources.given \/ SourceStr(s) \in mgr.sources.names)

\* C10 witness: "Amazon" activates nothing, "amazon" activates AmazonScraper
C10_Witness ==
    /\ mgr.pc = "running"
    /\ mgr.sources = SourceList({S_amazon})
    /\ mgr.active = << "amazon" >>

(***************************************************************************)
(* SpecTwice: two consecutive ScraperManager.search_products calls on the  *)
(* same scraper objects and cache directory                                *)
(***************************************************************************)
\* the cached file cannot be read; the network then answers with page p
AggFetchUnreadable(p) ==
    [ readOk |-> FALSE, outs |-> [ i \in 1..MAX_RETRIES |-> Outcome("ok", p, "ok") ] ]

TwiceFetchEnvs(again) ==
    { AggFetchFail, AggFetchOk(PageA), AggFetchOk(PageB) }
    \cup (IF again THEN { AggFetchUnreadable(PageA) } ELSE {})

TwiceEnvs(s, again) ==
    LET n == Len(search_strategies(s, S_tv))
    IN { [ k \in 1..n |-> e ] : e \in TwiceFetchEnvs(again) }
       \cup (IF n = 3
             THEN { << AggFetchFail, AggFetchOk(PageA), AggFetchOk(PageB) >> }
             ELSE {})

TwiceSources ==
    { SourceList({S_amazon}), SourceList({S_ebay}), SourceList({S_walmart}),
      SourceList({S_amazon, S_ebay}) }

\* the hours between the two calls: inside the cache window and at its end
TwiceHours == {cache_timeout_hours - 1, cache_timeout_hours}

\* the second call has the query, limit and sources of the first
SameRequest(q, l, src) ==
    history # << >> =>
        /\ q = history[1].call.query
        /\ l = history[1].call.limit
        /\ src = history[1].call.sources

\* two calls of limit MaxLimit on a host with Selenium installed
InitTwice ==
    /\ cache = << >>
    /\ now = 0
    /\ use_selenium = [s \in Scrapers |-> TRUE]
    /\ selenium_installed = TRUE
    /\ fetch = IdleFetch
    /\ nFetches = 0
    /\ mgr = IdleMgr
    /\ history = << >>
    /\ probe = NoProbe
    /\ ALLOW_FAKE = TRUE

\* the call has returned; d hours later the caller searches again
NextCall(d) ==
    /\ mgr.pc = "done"
    /\ Len(history) < MaxCalls - 1
    /\ now + d <= MaxNow
    /\ history' = Append(history, [call |-> mgr, at |-> now])
    /\ mgr' = IdleMgr
    /\ now' = now + d
    /\ UNCHANGED <<cache, use_selenium, selenium_installed, fetch, nFetches, probe, ALLOW_FAKE>>

NextTwice ==
    \/ \E l \in {MaxLimit}, src \in TwiceSources, par \in BOOLEAN :
           SameRequest(S_tv, l, src) /\ StartSearch(S_tv, l, src, par)
    \/ \E s \in Scrapers : \E envs \in TwiceEnvs(s, history # << >>), rnd \in RandSeqs :
           RunScraper(s, envs, rnd)
    \/ FinishSearch
    \/ \E d \in TwiceHours : NextCall(d)

SpecTwice == InitTwice /\ [][NextTwice]_vars

(***************************************************************************)
(* Properties of two consecutive calls (SpecTwice)                         *)
(***************************************************************************)
First == history[1].call

\* the second call has returned; it had the request of the first and began
\* inside the cache window of everything the first call stored
TwiceDone ==
    /\ Len(history) = 1
    /\ Done
    /\ mgr.query = First.query /\ mgr.limit = First.limit /\ mgr.sources = First.sources
    /\ now - history[1].at < cache_timeout_hours

\* the get_page_content calls of extractor s in a call
LogsOf(call, s) ==
    UNION { { call.runs[k].fetches[j] : j \in 1..Len(call.runs[k].fetches) } :
            k \in { i \in 1..Len(call.runs) : call.runs[i].scraper = s } }

\* the get_page_content calls for strategy k of s that went to the network
NetFetches(call, s, k) == Cardinality({ f \in LogsOf(call, s) : f.k = k /\ f.attempts > 0 })

\* a listing without the random price of a synthetic one
Shape(p) == IF p.synthetic THEN [p EXCEPT !.price = 0] ELSE p

Similar(a, b) ==
    /\ Len(a) = Len(b)
    /\ \A k \in 1..Len(a) : Shape(a[k]) = Shape(b[k])

\* what extractor s returned in a call
ProductsOf(call, s) ==
    LET ks == { i \in 1..Len(call.runs) : call.runs[i].scraper = s }
    IN IF ks = {} THEN << >> ELSE call.runs[CHOOSE i \in ks : TRUE].products

\* every fetch of s in the first call returned a page (and stored it), and
\* every cached file the second call opened could be read
AllCached(s) ==
    /\ \A f \in LogsOf(First, s) : f.got
    /\ \A f \in LogsOf(mgr, s) : f.readOk

PriceInputs ==
    { PriceAbsent, PriceNum(0), PriceNum(12), PriceNum(1234),
      PriceStr(<< "$", "1", ",", "2", "3", "4", ".", "5", "6" >>),
      PriceStr(<< "N", "/", "A" >>),
      PriceStr(<< >>),
      PriceStr(<< "-", "5" >>),
      PriceStr(<< "-", "$", "0", ".", "5", "0" >>),
      PriceStr(<< "1", "2" >>),
      PriceStr(<< "1", ".", "5" >>),
      PriceStr(<< " ", "$", "7", " " >>),
      PriceStr(<< "1", ".", "2", ".", "3" >>),
      PriceStr(<< "$" >>),
      PriceStr(<< "+", "3" >>),
      PriceStr(<< ".", "5" >>) }

ImageInputs == { Absent, << >>, S_real_image, S_fake_image_prefix }

InitNormalize ==
    /\ cache = << >>
    /\ now = 0
    /\ use_selenium = [s \in Scrapers |-> TRUE]
    /\ selenium_installed = TRUE
    /\ fetch = IdleFetch
    /\ nFetches = 0
    /\ mgr = IdleMgr
    /\ history = << >>
    /\ ALLOW_FAKE = TRUE
    /\ \E price \in PriceInputs, image \in ImageInputs, image_url \in ImageInputs :
        probe = [ pc |-> "normalize",
                  product |-> [ image |-> image, image_url |-> image_url, price |-> price ] ]

\* manager._normalize_product_fields(product)
Normalize ==
    /\ probe.pc = "normalize"
    /\ probe' = [ pc |-> "normalized", product |-> probe.product,
                  out |-> normalize_product_fields(probe.product) ]
    /\ UNCHANGED <<cache, now, use_selenium, selenium_installed, fetch, nFetches, mgr,
                   history, ALLOW_FAKE>>

NextNormalize == Normalize

SpecNormalize == InitNormalize /\ [][NextNormalize]_vars

Normalized == probe.pc = "normalized"

\* the input price is a text that float() rejects after "$" and "," are removed
Unparsable(v) ==
    /\ v.kind = "str"
    /\ float(Replace(Replace(v.s, << "$" >>, << >>), << "," >>, << >>)).raised # None

\* C11: _normalize_product_fields never raises and leaves price a number >= 0,
\* which is 0.0 whenever the input price is unparsable.
C11_PriceNonNegative ==
    Normalized =>
        /\ probe.out.price.raised = None
        /\ probe.out.price.value >= 0
        /\ Unparsable(probe.product.price) => probe.out.price.value = 0


(***************************************************************************)
(* SpecNoFake: one ScraperManager.search_products call in a process        *)
(* started with ALLOW_FAKE_PRODUCTS=false                                  *)
(***************************************************************************)
InitNoFake ==
    /\ cache = << >>
    /\ now = 0
    /\ use_selenium = [s \in Scrapers |-> TRUE]
    /\ selenium_installed \in BOOLEAN
    /\ fetch = IdleFetch
    /\ nFetches = 0
    /\ mgr = IdleMgr
    /\ history = << >>
    /\ probe = NoProbe
    /\ ALLOW_FAKE = FALSE

SpecNoFake == InitNoFake /\ [][Next]_vars

\* C12: Synthetic suppression: with ALLOW_FAKE_PRODUCTS disabled no search call
\* returns a synthetic listing, and a call whose every source failed to
\* extract returns the empty collection.
C12_SyntheticSuppressed ==
    (~ALLOW_FAKE /\ Done) =>
        /\ ~HasSynthetic(mgr.returned)
        /\ ~HasReal(mgr.results) => mgr.returned = << >>

\* every get_page_content call of the run returned None
AllFetchesFailed(run) ==
    /\ run.fetches # << >>
    /\ \A j \in 1..Len(run.fetches) : ~run.fetches[j].got

\* C13: Synthetic count: an extractor whose every fetch returned nothing
\* produces exactly min(limit, cap) synthetic listings, and when that happens
\* to all three sources the merged collection holds that many per source.
C13_SyntheticCount ==
    Done =>
        /\ \A k \in 1..Len(mgr.runs) :
              AllFetchesFailed(mgr.runs[k]) =>
                  /\ Len(mgr.runs[k].products) = Min(mgr.limit, FakeCap)
                  /\ ~HasReal(mgr.runs[k].products)
        /\ (ActiveSet = Scrapers /\ \A k \in 1..Len(mgr.runs) : AllFetchesFailed(mgr.runs[k]))
              => Len(mgr.results) = Cardinality(Scrapers) * Min(mgr.limit, FakeCap)

(***************************************************************************)
(* The fallback generators over two calls (SpecTwice)                      *)
(***************************************************************************)
\* extractor s returned only generated listings in the call
OnlySynthetic(call, s) ==
    /\ ProductsOf(call, s) # << >>
    /\ ~HasReal(ProductsOf(call, s))

FetchDone == fetch.pc = "done"

\* C15: Call statelessness: a call changes nothing but the on-disk cache; the
\* configuration of its extractor, use_selenium included, is after the call
\* what it was before it.
C15_ConfigurationUnchanged ==
    FetchDone => use_selenium[fetch.scraper] = fetch.usesel0

\* the call is about to make its last pass, and began the pass before it with
\* the browser off
AfterSecondToLast ==
    /\ fetch.pc = "loop"
    /\ fetch.i = MAX_RETRIES - 1
    /\ fetch.last.i = MAX_RETRIES - 2
    /\ ~fetch.last.usesel

\* C19: Browser escalation: when the second-to-last pass gives no accepted
\* response, by an exception or by a body of at most 200 characters, and
\* selenium is installed and the browser is off, the browser is on for the
\* rest of the call.
C19_EscalatesOnAnyFailure ==
    AfterSecondToLast /\ selenium_installed => use_selenium[fetch.scraper]

HttpPasses == fetch.attempts - (IF fetch.last.path = "selenium" THEN 1 ELSE 0)

C20_BrowserOnlyOnFinalAttempt ==
    fetch.last # NoAttempt =>
        /\ fetch.last.path \in {"selenium", "http"}
        /\ fetch.last.path = "selenium"
              <=> (fetch.last.i = MAX_RETRIES - 1 /\ fetch.last.usesel)
        /\ fetch.requests >= Min(fetch.attempts, MAX_RETRIES - 1)

\* C20 witness: an extractor built with the browser on sent a request on each
\* earlier pass and used the browser on the last
C20_Witness ==
    /\ FetchDone
    /\ fetch.usesel0
    /\ fetch.last.i = MAX_RETRIES - 1
    /\ fetch.last.path = "selenium"
    /\ fetch.requests >= MAX_RETRIES - 1

(***************************************************************************)
(* HybridProductSearch._search_ebay / _search_walmart: one call            *)
(***************************************************************************)
\* "mock"
S_mock ==
    <<"m","o","c","k">>

\* the sources with an API client
ApiSources == {"ebay", "walmart"}

\* what the API server answers to a configured client: status 200 with n
\* items, another status, or no answer
ApiAnswers ==
    { [kind |-> "ok", n |-> n] : n \in 0..MaxLimit }
    \cup { [kind |-> "status", n |-> 0], [kind |-> "neterr", n |-> 0] }

\* EbayAPIClient / WalmartAPIClient ._generate_mock_products(query, limit)
api_generate_mock_products(s, limit) ==
    [ i \in 1..RangeLen(limit) |->
        [ id |-> SourceStr(s) \o << "_" >> \o S_mock \o << "_" >> \o DigitStr(i),
          source |-> s ] ]

\* _parse_ebay_response / _parse_walmart_response: "id": item.get("itemId", ""),
\* an item id of the marketplace ("v1|<n>")
api_parse_response(s, a) ==
    [ i \in 1..a.n |-> [ id |-> << "v", "1", "|" >> \o DigitStr(i), source |-> s ] ]

\* EbayAPIClient / WalmartAPIClient .search_products(query, limit)
api_search_products(s, configured, a, limit) ==
    IF ~configured THEN api_generate_mock_products(s, limit)
    ELSE IF a.kind = "ok" THEN api_parse_response(s, a)
    ELSE api_generate_mock_products(s, limit)

\* any non-empty answer of the API taken
ApiAcceptedNonEmpty(products) == products # << >>

\* if products and not any("mock" in p.get("id", "") for p in products)
ApiAccepted(products) ==
    /\ products # << >>
    /\ ~\E k \in 1..Len(products) : Contains(S_mock, products[k].id)

\* HybridProductSearch(): the API clients hold the placeholder key, or the key
\* that replaces it
InitHybrid ==
    /\ cache = << >>
    /\ now = 0
    /\ use_selenium = [s \in Scrapers |-> TRUE]
    /\ selenium_installed \in BOOLEAN
    /\ fetch = IdleFetch
    /\ nFetches = 0
    /\ mgr = IdleMgr
    /\ history = << >>
    /\ ALLOW_FAKE = TRUE
    /\ \E configured \in BOOLEAN :
          probe = [ pc |-> "idle", configured |-> configured, scraper |-> "none",
                    limit |-> 0, api |-> << >>, calls |-> << >>, from |-> "none", n |-> 0 ]

\* _search_ebay(query, limit) / _search_walmart(query, limit) up to the return
\* of the API results or the fall back to the scraper
HybridCallApi(s, limit, a) ==
    /\ probe.pc = "idle"
    /\ LET products == api_search_products(s, probe.configured, a, limit)
           p1 == [ probe EXCEPT !.scraper = s, !.limit = limit, !.api = products,
                                !.calls = << "api" >> ]
       IN probe' = IF ApiAccepted(products)
                   THEN [ p1 EXCEPT !.pc = "done", !.from = "api", !.n = Len(products) ]
                   ELSE [ p1 EXCEPT !.pc = "scraper" ]
    /\ UNCHANGED <<cache, now, use_selenium, selenium_installed, fetch, nFetches, mgr,
                   history, ALLOW_FAKE>>

\* what the fall back leaves: _normalize_products of the scraper's listings,
\* or [] when the scraper raised
HybridFallBack(s, r, rnd) ==
    /\ (rnd # ZeroRnd => HasSynthetic(r.products))
    /\ cache' = r.cache
    /\ use_selenium' = [use_selenium EXCEPT ![s] = r.usesel]
    /\ probe' = [ probe EXCEPT !.pc = "done",
                               !.calls = Append(@, "scraper"),
                               !.from = IF r.raised # None THEN "none" ELSE "scraper",
                               !.n = IF r.raised # None THEN 0 ELSE Len(r.products) ]

\* the fall back: self.ebay_scraper.search_products(query, limit) in the executor
HybridScrape(s, envs, rnd) ==
    /\ probe.pc = "scraper"
    /\ probe.scraper = s
    /\ HybridFallBack(s, search_products(s, S_tv, probe.limit, cache, use_selenium[s],
                                         envs, rnd, selenium_installed, now), rnd)
    /\ UNCHANGED <<now, selenium_installed, fetch, nFetches, mgr, history, ALLOW_FAKE>>

NextHybrid ==
    \/ \E s \in ApiSources, limit \in Limits, a \in ApiAnswers : HybridCallApi(s, limit, a)
    \/ \E s \in ApiSources : \E envs \in ExtractorEnvs(s), rnd \in RandSeqs :
           HybridScrape(s, envs, rnd)

SpecHybrid == InitHybrid /\ [][NextHybrid]_vars

\* every result of the API is marked mock
AllMock(products) == \A k \in 1..Len(products) : Contains(S_mock, products[k].id)

DefaultSources == SourceList({S_amazon, S_ebay, S_walmart})

\* ProductSearchRequest: sources (None or a list), limit, the attribute
\* fallback, which the request class may lack, and the price bounds (0: None)
Request(sources, limit, fallback, min_price, max_price) ==
    [ sources |-> sources, limit |-> limit, fallback |-> fallback,
      min_price |-> min_price, max_price |-> max_price ]

\* [s.lower() for s in (request.sources or ["amazon", "ebay", "walmart"])]
RequestSources(request) ==
    IF ~request.sources.given \/ request.sources.names = {} THEN DefaultSources
    ELSE SourceList({ Lower(n) : n \in request.sources.names })

\* the second call made whatever the attribute says
FallbackAlways(request) == TRUE

\* getattr(request, "fallback", True)
Fallback(request) == request.fallback # "false"

\* the requests of the model: the doubled limit stays within MaxLimit
UnifiedRequests ==
    { Request(src, l, fb, pr[1], pr[2]) :
        src \in { NoSources, SourceList({S_target}), SourceList({S_walmart}),
                  SourceList({S_EBAY}) },
        l \in { k \in 0..MaxLimit : 2 * k <= MaxLimit },
        fb \in { "absent", "true", "false" },
        pr \in { <<0, 0>>, <<50, 0>>, <<0, 50>> } }

\* what the fetches of one extractor call meet in SpecUnified
UnifiedEnvs(s) ==
    { [ k \in 1..Len(search_strategies(s, S_tv)) |-> e ] : e \in { AggFetchFail, AggFetchOk(PageA) } }

IdleUnified ==
    [ pc |-> "idle", request |-> Request(NoSources, 0, "absent", 0, 0), calls |-> << >>,
      total |-> 0 ]

InitUnified ==
    /\ cache = << >>
    /\ now = 0
    /\ use_selenium = [s \in Scrapers |-> TRUE]
    /\ selenium_installed = TRUE
    /\ fetch = IdleFetch
    /\ nFetches = 0
    /\ mgr = IdleMgr
    /\ history = << >>
    /\ ALLOW_FAKE = TRUE
    /\ probe = IdleUnified

\* what a finished call of the manager was asked and gave
CallLog(m) == [ sources |-> m.sources, limit |-> m.limit, n |-> Len(m.returned) ]

\* search_products_unified(request) up to the first call of the manager
UnifiedCall(request) ==
    /\ probe.pc = "idle"
    /\ mgr.pc = "idle"
    /\ mgr' = Dispatched(S_tv, request.limit * 2, RequestSources(request), TRUE)
    /\ probe' = [ IdleUnified EXCEPT !.pc = "first", !.request = request ]
    /\ UNCHANGED <<cache, now, use_selenium, selenium_installed, fetch, nFetches, history,
                   ALLOW_FAKE>>

\* if not scraper_results and getattr(request, "fallback", True): the second
\* call of the manager, with all the sources
UnifiedFallback ==
    /\ probe.pc = "first"
    /\ mgr.pc = "done"
    /\ mgr.returned = << >>
    /\ Fallback(probe.request)
    /\ mgr' = Dispatched(S_tv, probe.request.limit * 2, DefaultSources, TRUE)
    /\ probe' = [ probe EXCEPT !.pc = "second", !.calls = Append(@, CallLog(mgr)) ]
    /\ UNCHANGED <<cache, now, use_selenium, selenium_installed, fetch, nFetches, history,
                   ALLOW_FAKE>>

\* the items that pass the min_price and max_price tests
PriceFiltered(results, request) ==
    SelectSeq(results,
              LAMBDA p : /\ ~(request.min_price # 0 /\ p.price < request.min_price)
                         /\ ~(request.max_price # 0 /\ p.price > request.max_price))

\* the rest of the function: the price filter and products[:request.limit] of
\* the results in hand
UnifiedRespond ==
    /\ mgr.pc = "done"
    /\ \/ probe.pc = "second"
       \/ probe.pc = "first" /\ ~(mgr.returned = << >> /\ Fallback(probe.request))
    /\ probe' = [ probe EXCEPT !.pc = "done", !.calls = Append(@, CallLog(mgr)),
                               !.total = Min(Len(PriceFiltered(mgr.returned, probe.request)),
                                              probe.request.limit) ]
    /\ UNCHANGED <<cache, now, use_selenium, selenium_installed, fetch, nFetches, mgr,
                   history, ALLOW_FAKE>>

NextUnified ==
    \/ \E request \in UnifiedRequests : UnifiedCall(request)
    \/ \E s \in Scrapers : \E envs \in UnifiedEnvs(s), rnd \in RandSeqs :
           RunScraper(s, envs, rnd)
    \/ FinishSearch
    \/ UnifiedFallback
    \/ UnifiedRespond

SpecUnified == InitUnified /\ [][NextUnified]_vars

\* C17: Caller fallback: search_products_unified calls the manager a second
\* time, with the sources amazon, ebay and walmart, if and only if the first
\* call returned nothing and the request's fallback flag is set (it is set
\* when the request has no such attribute); it never calls it a third time.
C17_CallerFallback ==
    probe.pc = "done" =>
        /\ Len(probe.calls) \in {1, 2}
        /\ probe.calls[1].sources = RequestSources(probe.request)
        /\ Len(probe.calls) = 2
              <=> (probe.calls[1].n = 0 /\ probe.request.fallback # "false")
        /\ Len(probe.calls) = 2 =>
              /\ probe.calls[2].sources = DefaultSources
              /\ probe.calls[2].limit = probe.calls[1].limit

\* C17 witness: a request for a source that gave nothing was answered from the
\* second call
C17_Witness ==
    /\ probe.pc = "done"
    /\ probe.request.sources = SourceList({S_walmart})
    /\ probe.request.fallback = "true"
    /\ Len(probe.calls) = 2
    /\ probe.calls[2].n > 0
    /\ probe.total > 0

(***************************************************************************)
(* The cache of get_page_content (SpecFetch)                               *)
(***************************************************************************)
\* C21: Acceptance threshold: a fetched body is accepted only when it is
\* longer than 200 characters, the first accepted body is returned and ends
\* the call, and every cache entry holds a body longer than 200 characters.
C21_AcceptanceThreshold ==
    /\ fetch.last.what = "accepted" =>
          /\ fetch.last.fetched.len > MinBodyLen
          /\ fetch.pc = "done"
          /\ fetch.html = fetch.last.fetched
    /\ fetch.pc = "done" /\ ~fetch.hit /\ fetch.html # NoHtml => fetch.html.len > MinBodyLen
    /\ \A k \in DOMAIN cache : cache[k].body.len > MinBodyLen

\* C25: Cache entries are written only by a pass of a call that was not
\* served from the cache and whose body passed the length test: a cache hit
\* leaves the entry's body and timestamp as they were, the write touches the
\* entry of the call's URL only and stamps it with the time of the write, and
\* no step removes an entry.
C25_WrittenOnlyByAcceptedMiss ==
    [][ /\ DOMAIN cache \subseteq DOMAIN cache'
        /\ cache' # cache =>
              /\ fetch.pc = "loop"
              /\ ~fetch.hit
              /\ fetch'.last.fetched.len > MinBodyLen
              /\ fetch'.last.what \in {"accepted", "writefail"}
              /\ EntryOf(cache', fetch.url).mtime = now
              /\ \A k \in DOMAIN cache \ {cache_file(fetch.url)} : cache'[k] = cache[k]
        /\ fetch'.hit /\ fetch'.pc = "done" => cache' = cache
      ]_vars

\* C25 witness: an entry written earlier was served and is as it was
C25_Witness ==
    /\ FetchDone
    /\ fetch.hit
    /\ fetch.before.mtime < fetch.at
    /\ EntryOf(cache, fetch.url) = fetch.before

\* C29: Failed fetch leaves the cache unchanged: when a call returns None the
\* entry of its URL has the body and the timestamp it had before the call.
C29_FailedFetchKeepsEntry ==
    FetchDone /\ ~fetch.hit /\ fetch.html = NoHtml =>
        EntryOf(cache, fetch.url) = fetch.before

(***************************************************************************)
(* The extractors within ScraperManager.search_products (Spec)             *)
(***************************************************************************)
\* the extractors with several search URLs
MultiStrategy == { s \in Scrapers : Len(search_strategies(s, S_tv)) > 1 }

\* the page of a fetch holds a result node that extractor s makes a listing of
Yields(s, log, limit) ==
    /\ log.got
    /\ limit > 0
    /\ \E j \in 1..Min(Len(log.html.nodes), limit) :
          IF s = "ebay" THEN EbayEmits(log.html.nodes[j]) ELSE WalmartEmits(log.html.nodes[j])

\* C22: Strategy ordering: eBay and Walmart fetch their search URLs in the
\* listed order, stop at the first whose page yields a listing and return its
\* listings; no URL is fetched after one that yielded, and the generator runs
\* only after every URL was fetched and none yielded.
C22_StrategyOrdering ==
    \A r \in 1..Len(mgr.runs) :
        LET run == mgr.runs[r]
            n   == Len(run.fetches)
        IN (run.scraper \in MultiStrategy /\ run.raised = None) =>
              /\ \A j \in 1..n : run.fetches[j].k = j
              /\ \A j \in 1..(n - 1) : ~Yields(run.scraper, run.fetches[j], mgr.limit)
              /\ HasReal(run.products) => Yields(run.scraper, run.fetches[n], mgr.limit)
              /\ HasSynthetic(run.products) =>
                    /\ n = Len(search_strategies(run.scraper, mgr.query))
                    /\ ~Yields(run.scraper, run.fetches[n], mgr.limit)

(***************************************************************************)
(* SpecExtract: one search_products call of one extractor on a page of     *)
(* three result nodes                                                      *)
(***************************************************************************)
\* a result node with everything, with a title only, and without a title
NodeKinds ==
    { [title |-> TRUE, price |-> "num", image |-> TRUE],
      [title |-> TRUE, price |-> "absent", image |-> FALSE],
      [title |-> FALSE, price |-> "num", image |-> TRUE] }

\* the search pages of SpecExtract
ExtractPages ==
    { Html(MinBodyLen + 1,
           [ i \in 1..3 |-> Node(i, ks[i].title, ks[i].price, ks[i].image) ]) :
      ks \in [1..3 -> NodeKinds] }

InitExtract ==
    /\ cache = << >>
    /\ now = 0
    /\ use_selenium = [s \in Scrapers |-> TRUE]
    /\ selenium_installed = TRUE
    /\ fetch = IdleFetch
    /\ nFetches = 0
    /\ mgr = IdleMgr
    /\ history = << >>
    /\ ALLOW_FAKE = TRUE
    /\ probe = [ pc |-> "idle" ]

\* the call has returned r
Extracted(s, limit, page, r, rnd) ==
    /\ (rnd # ZeroRnd => HasSynthetic(r.products))
    /\ cache' = r.cache
    /\ use_selenium' = [use_selenium EXCEPT ![s] = r.usesel]
    /\ probe' = [ pc |-> "extracted", scraper |-> s, limit |-> limit, nodes |-> page.nodes,
                  products |-> r.products, raised |-> r.raised ]

\* scraper.search_products('tv', limit), every search URL answering with page
Extract(s, limit, page, rnd) ==
    /\ probe.pc = "idle"
    /\ Extracted(s, limit, page,
                 search_products(s, S_tv, limit, cache, use_selenium[s],
                                 [ k \in 1..Len(search_strategies(s, S_tv)) |-> AggFetchOk(page) ],
                                 rnd, selenium_installed, now), rnd)
    /\ UNCHANGED <<now, selenium_installed, fetch, nFetches, mgr, history, ALLOW_FAKE>>

NextExtract ==
    \E s \in Scrapers, limit \in Limits, page \in ExtractPages, rnd \in RandSeqs :
        Extract(s, limit, page, rnd)

SpecExtract == InitExtract /\ [][NextExtract]_vars

ExtractDone == probe.pc = "extracted" /\ probe.raised = None

\* the real listings of the call
RealOnes == SelectSeq(probe.products, LAMBDA p : ~p.synthetic)

\* C23 as claimed: every real listing has a title and an image or a price.
C23_TitleAndImageOrPrice ==
    ExtractDone =>
        \A k \in 1..Len(RealOnes) :
            /\ RealOnes[k].title
            /\ RealOnes[k].image # Absent \/ RealOnes[k].price # NoPrice

\* C23: Emission rule: every real listing returned by an extractor has a
\* title; Amazon emits a result node only when it also has an image or a
\* price, while eBay and Walmart emit a node that has a title alone.
C23_EmissionRule ==
    ExtractDone =>
        \A k \in 1..Len(RealOnes) :
            /\ RealOnes[k].title
            /\ probe.scraper = "amazon" =>
                  (RealOnes[k].image # Absent \/ RealOnes[k].price # NoPrice)

\* C23 witness: eBay returned a listing that has only a title
C23_Witness ==
    /\ ExtractDone
    /\ probe.scraper = "ebay"
    /\ \E k \in 1..Len(RealOnes) :
          /\ RealOnes[k].title
          /\ RealOnes[k].image = Absent
          /\ RealOnes[k].price = NoPrice

\* the nodes among the first limit that extractor s makes a listing of
Qualifying(s, nodes, limit) ==
    SelectSeq(SubSeq(nodes, 1, Min(RangeLen(limit), Len(nodes))),
              LAMBDA node : CASE s = "amazon" -> AmazonEmits(node)
                              [] s = "ebay" -> EbayEmits(node)
                              [] s = "walmart" -> WalmartEmits(node))

\* C24: Node truncation and order: the real listings of a call are those of
\* the result nodes among the first limit that the extractor emits, one for
\* each, in document order.
C24_FirstLimitNodesInOrder ==
    ExtractDone /\ RealOnes # << >> =>
        /\ Len(RealOnes) = Len(Qualifying(probe.scraper, probe.nodes, probe.limit))
        /\ \A k \in 1..Len(RealOnes) :
              RealOnes[k].n = Qualifying(probe.scraper, probe.nodes, probe.limit)[k].id

(***************************************************************************)
(* The parallel dispatch of ScraperManager.search_products                 *)
(***************************************************************************)
RECURSIVE TaskResults(_)
\* what the tasks of runs returned, concatenated in the order they completed
TaskResults(runs) ==
    IF runs = << >> THEN << >>
    ELSE run_scraper(Head(runs)).products \o TaskResults(Tail(runs))

\* C26: Fan-out and join: a parallel call runs each active extractor exactly
\* once, and it filters and returns only after every task has completed, with
\* the listings of every task in the merged collection.
C26_FanOutAndJoin ==
    /\ mgr.parallel =>
          /\ \A s \in Scrapers : Cardinality(RunsOf(s)) <= 1
          /\ \A s \in Scrapers : RunsOf(s) # {} => s \in ActiveSet
          /\ mgr.results = TaskResults(mgr.runs)
    /\ mgr.parallel /\ mgr.pc = "done" /\ mgr.active # << >> =>
          /\ Len(mgr.runs) = Len(mgr.active)
          /\ \A s \in ActiveSet : Cardinality(RunsOf(s)) = 1
          /\ mgr.returned = Demote(TaskResults(mgr.runs))

\* C26 witness: a parallel call over three extractors returned after its tasks
\* completed in another order than the dispatch order, with listings of each
C26_Witness ==
    /\ mgr.parallel /\ mgr.pc = "done"
    /\ Len(mgr.active) = 3
    /\ mgr.runs[1].scraper # mgr.active[1]
    /\ \A k \in 1..3 : mgr.runs[k].products # << >>
    /\ Len(mgr.returned) = Len(TaskResults(mgr.runs))

\* the listings of a sequence as a multiset
SeqBag(seq) ==
    [ x \in { seq[k] : k \in 1..Len(seq) } |->
        Cardinality({ k \in 1..Len(seq) : seq[k] = x }) ]

RECURSIVE InDispatchOrder(_)
\* the runs of the call, in the order of active_scrapers
InDispatchOrder(active) ==
    IF active = << >> THEN << >>
    ELSE LET s == Head(active)
         IN << mgr.runs[CHOOSE k \in RunsOf(s) : TRUE] >> \o InDispatchOrder(Tail(active))

\* what the sequential loop returns for the extractor outputs of this call
SequentialReturn == Demote(TaskResults(InDispatchOrder(mgr.active)))

\* C28: Order independence: whatever the order in which the tasks complete,
\* the returned listings are, as a multiset, the listings the sequential loop
\* returns for the same extractor outputs; a sequential call returns exactly
\* those, in that order.
C28_OrderIndependence ==
    mgr.pc = "done" /\ mgr.active # << >> =>
        /\ SeqBag(mgr.returned) = SeqBag(SequentialReturn)
        /\ (~mgr.parallel => mgr.returned = SequentialReturn)

\* C28 witness: a parallel call whose tasks completed out of dispatch order,
\* whose filter removed placeholders, and whose return differs from the
\* sequential one in order alone
C28_Witness ==
    /\ mgr.pc = "done" /\ mgr.parallel
    /\ mgr.returned # SequentialReturn
    /\ mgr.returned # << >>
    /\ Len(mgr.returned) < Len(mgr.results)
    /\ SeqBag(mgr.returned) = SeqBag(SequentialReturn)

\* every listing of bag a is in bag b at least as often
SubBag(a, b) == \A x \in DOMAIN a : x \in DOMAIN b /\ a[x] <= b[x]

\* C30: Demotion never empties a result: a call whose merged collection is not
\* empty returns a collection that is not empty, what it returns is a
\* sub-collection of the merged one, and when every merged listing carries the
\* placeholder marker all of them are returned.
C30_DemotionNeverEmpties ==
    mgr.pc = "done" =>
        /\ mgr.results # << >> => mgr.returned # << >>
        /\ SubBag(SeqBag(mgr.returned), SeqBag(mgr.results))
        /\ (\A k \in 1..Len(mgr.results) : ~NonPlaceholder(mgr.results[k]))
              => mgr.returned = mgr.results

\* C30 witness: a call over several extractors whose merged listings all carry
\* the placeholder marker and are all returned
C30_Witness ==
    /\ mgr.pc = "done"
    /\ Len(mgr.runs) >= 2
    /\ Len(mgr.results) >= 2
    /\ \A k \in 1..Len(mgr.results) : ~NonPlaceholder(mgr.results[k])
    /\ mgr.returned = mgr.results

(***************************************************************************)
(* SpecConcurrent: get_page_content calls for one URL that run at the same *)
(* time (the tasks of concurrent search_products calls).  A call is split  *)
(* at its file operations: the test of the cached file, its read, the      *)
(* open(cache_file, 'w') that empties it and the f.write that fills it.    *)
(***************************************************************************)
Threads == 1..MaxThreads

\* the URL they all fetch
SharedUrl == search_strategies("amazon", S_tv)[1]

\* a page longer than PageA
PageLong == Html(MinBodyLen + 2, << Node(3, TRUE, "num", TRUE) >>)

\* the clock of SpecConcurrent, and the cached files it starts from: none, a
\* stale one, a fresh one
ConcurrentNow == cache_timeout_hours + 1

ConcurrentCaches ==
    { << >> } \cup
    { [ k \in {cache_file(SharedUrl)} |-> CacheEntry(PageB, m) ] : m \in {0, ConcurrentNow - 1} }

IdleThread == [ pc |-> "idle", html |-> NoHtml, got |-> NoHtml, hit |-> FALSE ]

InitConcurrent ==
    /\ cache \in ConcurrentCaches
    /\ now = ConcurrentNow
    /\ use_selenium = [s \in Scrapers |-> FALSE]
    /\ selenium_installed = FALSE
    /\ fetch = IdleFetch
    /\ nFetches = 0
    /\ mgr = IdleMgr
    /\ history = << >>
    /\ ALLOW_FAKE = TRUE
    /\ probe = [ pc |-> "threads", th |-> [ t \in Threads |-> IdleThread ],
                 first |-> EntryOf(cache, SharedUrl).body, last |-> 0 ]

\* what a file holds after `body` is written from offset 0 over `old`
Overwritten(old, body) ==
    IF old.len > body.len THEN Html(old.len, body.nodes) ELSE body

\* os.path.exists(cache_file) and the age test
ThreadStat(t) ==
    /\ probe.pc = "threads"
    /\ probe.th[t].pc = "idle"
    /\ probe' = [ probe EXCEPT !.th[t].pc =
                     IF CacheIsValid(cache, SharedUrl, FALSE, now)
                     THEN "reading" ELSE "fetching" ]
    /\ UNCHANGED <<cache, now, use_selenium, selenium_installed, fetch, nFetches, mgr, history, ALLOW_FAKE>>

\* with open(cache_file, 'r') as f: return f.read()
ThreadRead(t, readOk) ==
    /\ probe.pc = "threads"
    /\ probe.th[t].pc = "reading"
    /\ probe' = IF readOk
                THEN [ probe EXCEPT !.th[t].pc = "done", !.th[t].hit = TRUE,
                                    !.th[t].got = cache[cache_file(SharedUrl)].body ]
                ELSE [ probe EXCEPT !.th[t].pc = "fetching" ]
    /\ UNCHANGED <<cache, now, use_selenium, selenium_installed, fetch, nFetches, mgr, history, ALLOW_FAKE>>

\* the retry loop up to the length test: a pass fetched `page`, or every pass failed
ThreadFetch(t, page) ==
    /\ probe.pc = "threads"
    /\ probe.th[t].pc = "fetching"
    /\ probe' = IF Acceptable(page)
                THEN [ probe EXCEPT !.th[t].pc = "opening", !.th[t].html = page ]
                ELSE [ probe EXCEPT !.th[t].pc = "done" ]
    /\ UNCHANGED <<cache, now, use_selenium, selenium_installed, fetch, nFetches, mgr, history, ALLOW_FAKE>>

\* open(cache_file, 'w', encoding='utf-8')
ThreadOpen(t) ==
    /\ probe.pc = "threads"
    /\ probe.th[t].pc = "opening"
    /\ cache' = (cache_file(SharedUrl) :> CacheEntry(TruncatedBody, now))
    /\ probe' = [ probe EXCEPT !.th[t].pc = "writing" ]
    /\ UNCHANGED <<now, use_selenium, selenium_installed, fetch, nFetches, mgr, history, ALLOW_FAKE>>

\* f.write(html), the close and return html
ThreadWrite(t) ==
    /\ probe.pc = "threads"
    /\ probe.th[t].pc = "writing"
    /\ cache' = (cache_file(SharedUrl) :>
                    CacheEntry(Overwritten(cache[cache_file(SharedUrl)].body, probe.th[t].html), now))
    /\ probe' = [ probe EXCEPT !.th[t].pc = "done", !.th[t].got = probe.th[t].html,
                               !.last = t ]
    /\ UNCHANGED <<now, use_selenium, selenium_installed, fetch, nFetches, mgr, history, ALLOW_FAKE>>

NextConcurrent ==
    \E t \in Threads :
        \/ ThreadStat(t)
        \/ \E readOk \in BOOLEAN : ThreadRead(t, readOk)
        \/ \E page \in {ShortPage, PageA, PageLong} : ThreadFetch(t, page)
        \/ ThreadOpen(t)
        \/ ThreadWrite(t)

SpecConcurrent == InitConcurrent /\ [][NextConcurrent]_vars

\* the bodies some writer wrote whole, and the one the calls started from
WholeBodies ==
    { probe.th[t].html : t \in { u \in Threads : probe.th[u].pc = "done" /\ ~probe.th[u].hit } }
        \cup { probe.first }

\* C27: Cache write atomicity under concurrency: every read of the cached file
\* returns the complete body written by one writer, never an empty or partly
\* written one, and once every writer has finished the file holds the complete
\* body of the last writer.
C27_CacheWriteAtomic ==
    probe.pc = "threads" =>
        /\ \A t \in Threads :
              probe.th[t].pc = "done" /\ probe.th[t].hit =>
                  probe.th[t].got \in (WholeBodies \cup {PageA, PageLong}) \ {NoHtml}
        /\ (\A t \in Threads : probe.th[t].pc = "done") /\ probe.last # 0 =>
              cache[cache_file(SharedUrl)].body = probe.th[probe.last].html
====
